---------------------------- MODULE Spec2Model ----------------------------
(***************************************************************************)
(* Model of i2c-gpio-custom.c (the build for kernels >= 4.15, where the    *)
(* driver installs one gpiod lookup table per bus).                         *)
(*                                                                          *)
(* The module parameters bus0..bus3 and bus_nump are fixed at load time.   *)
(* i2c_gpio_custom_probe calls i2c_gpio_custom_add_one for the slots 0..3  *)
(* in order, and i2c_gpio_custom_cleanup on the first error.  The kernel   *)
(* calls i2c_gpio_custom_exit only for a module whose init returned 0.     *)
(*                                                                          *)
(* The kernel services the driver calls (gpio_to_chip, kmalloc, the        *)
(* platform device calls, the gpiod lookup list, kfree) are not part of    *)
(* the source file; they are modelled by their documented effect on a      *)
(* small abstract kernel state, and every call is appended to `log`.       *)
(* A call whose behaviour is undefined (a write through a NULL pointer, a  *)
(* list removal of an entry that is not on the list, a use or release of   *)
(* freed memory) either stops the kernel thread ("oops") or goes on        *)
(* without visible effect ("silent"); the choice is an input of the step.  *)
(***************************************************************************)
EXTENDS Integers, Sequences, FiniteSets, TLC

\* ---- program constants (src/i2c-gpio-custom.c:67-78, 103) ----
BUS_PARAM_ID == 0
BUS_PARAM_SDA == 1
BUS_PARAM_SCL == 2
BUS_PARAM_UDELAY == 3
BUS_PARAM_TIMEOUT == 4
BUS_PARAM_SDA_OD == 5
BUS_PARAM_SCL_OD == 6
BUS_PARAM_SCL_OO == 7
BUS_PARAM_REQUIRED == 3
BUS_PARAM_COUNT == 8
BUS_COUNT_MAX == 4
BUS_NAME_MAX == 32

\* ---- bounds of the model ----
\* bus ids supplied on the command line are drawn from 0..MaxId
MaxId == 1
\* how many times i2c_gpio_custom_cleanup may run in SpecTeardown
MaxCleanup == 2

NULL == 0
Slots == 0 .. (BUS_COUNT_MAX - 1)
\* a platform device / an identity string is named by the slot that
\* allocated it, plus one (so that no handle equals NULL)
Handles == 1 .. BUS_COUNT_MAX
Ids == 0 .. MaxId

\* ---- the pin registry's chips (what gpio_to_chip consults) ----
NoChip == [label |-> "NULL", base |-> 0, ngpio |-> 0]
GpioChips == {[label |-> "gpiochip4", base |-> 4, ngpio |-> 4]}

gpio_to_chip(gpio) ==
  IF \E c \in GpioChips : c.base <= gpio /\ gpio < c.base + c.ngpio
  THEN CHOOSE c \in GpioChips : c.base <= gpio /\ gpio < c.base + c.ngpio
  ELSE NoChip

\* ---- module parameters ----
\* the values written on the command line for one bus: id, sda, scl and
\* the five optional fields
GoodPair == <<5, 6>>
BadPairs == {<<100000, 6>>, <<5, 100000>>}
Full(id, pair) == <<id, pair[1], pair[2], 10, 100, 1, 0, 1>>

\* module_param_array stores the n supplied values in the zero-initialised
\* static array and n in bus_nump
Load(n, v) ==
  [nump |-> n,
   params |-> [k \in 0 .. (BUS_PARAM_COUNT - 1) |-> IF k < n THEN v[k + 1] ELSE 0]]

Tuples ==
  {Load(0, Full(0, GoodPair))}
  \cup {Load(n, Full(0, GoodPair)) : n \in 1 .. (BUS_PARAM_REQUIRED - 1)}
  \cup {Load(BUS_PARAM_REQUIRED, Full(0, p)) : p \in BadPairs}
  \cup {Load(n, Full(id, GoodPair)) :
          n \in {BUS_PARAM_REQUIRED, BUS_PARAM_COUNT}, id \in Ids}

\* ---- identity string: snprintf(dev_id, 33, "i2c-gpio.%d", id) ----
DigitChar == <<"0", "1", "2", "3", "4", "5", "6", "7", "8", "9">>

RECURSIVE Digits(_)
Digits(n) ==
  IF n < 10 THEN <<DigitChar[n + 1]>>
  ELSE Digits(n \div 10) \o <<DigitChar[(n % 10) + 1]>>

\* the decimal digits of -v for v < 0, without negating v (INT_MIN has no
\* negation in 32 bits)
RECURSIVE NegDigits(_)
NegDigits(v) ==
  LET d == (10 - (v % 10)) % 10
      q == (v + d) \div 10
  IN IF q = 0 THEN <<DigitChar[d + 1]>>
     ELSE NegDigits(q) \o <<DigitChar[d + 1]>>

\* An unsigned int is held here as the int with the same 32 bits, which is
\* what %d and the int parameter of platform_device_alloc read.
\* IntOfUint gives that int for the unsigned value hi * 2^16 + lo.
IntOfUint(u) ==
  IF u[1] >= 32768 THEN (u[1] - 65536) * 65536 + u[2] ELSE u[1] * 65536 + u[2]

\* mutant: the sign is not printed
FormatD_nosign(v) == IF v < 0 THEN NegDigits(v) ELSE Digits(v)
\* %d
FormatD(v) == IF v < 0 THEN <<"-">> \o NegDigits(v) ELSE Digits(v)

DevIdPrefix == <<"i", "2", "c", "-", "g", "p", "i", "o", ".">>
DevIdText(id) == DevIdPrefix \o FormatD(id)
\* snprintf returns the length the full text needs
snprintf_len(id) == Len(DevIdText(id))
\* and stores at most size - 1 characters
snprintf_text(id) ==
  IF snprintf_len(id) <= BUS_NAME_MAX THEN DevIdText(id)
  ELSE SubSeq(DevIdText(id), 1, BUS_NAME_MAX)

\* ---- state ----
VARIABLES
  bus_nump,         \* [Slots -> 0..8]
  params,           \* [Slots -> [0..7 -> Nat]]  (bus0..bus3)
  devices,          \* [Slots -> Handles \cup {NULL}]
  nr_devices,
  gpiod_tables,     \* [Slots -> [dev_id, table]]
  gpio_lookup_list, \* slots whose table is on the kernel's lookup list
  pdevs,            \* [Handles -> [state, id, pdata]]
  kheap,            \* [Handles -> [state, text]]  identity strings
  log,              \* the kernel calls made so far
  pc, cur, err,     \* position in probe, next slot, last return value
  cleanups          \* number of i2c_gpio_custom_cleanup calls so far

vars == <<bus_nump, params, devices, nr_devices, gpiod_tables,
          gpio_lookup_list, pdevs, kheap, log, pc, cur, err, cleanups>>

\* the driver's globals and the kernel state as one value
World ==
  [devices |-> devices, nr_devices |-> nr_devices,
   gpiod_tables |-> gpiod_tables, gpio_lookup_list |-> gpio_lookup_list,
   pdevs |-> pdevs, kheap |-> kheap, log |-> log, oops |-> FALSE]

SetWorld(w) ==
  /\ devices' = w.devices
  /\ nr_devices' = w.nr_devices
  /\ gpiod_tables' = w.gpiod_tables
  /\ gpio_lookup_list' = w.gpio_lookup_list
  /\ pdevs' = w.pdevs
  /\ kheap' = w.kheap
  /\ log' = w.log

ZeroPdata ==
  [udelay |-> 0, timeout |-> 0, sda_is_open_drain |-> FALSE,
   scl_is_open_drain |-> FALSE, scl_is_output_only |-> FALSE]

GPIOD_TABLE_TEMPLATE ==
  [dev_id |-> NULL,
   table |-> [k \in 0 .. 1 |->
                [chip_label |-> "NULL", chip_hwnum |-> 0,
                 con_id |-> IF k = 0 THEN "sda" ELSE "scl"]]]


\* ---- kernel services, as the driver uses them ----
\* Every operator takes the world w and returns the world after the call.
\* Once the thread has oopsed nothing more executes.
Event(op, arg, valid) == [op |-> op, arg |-> arg, valid |-> valid]
Logged(w, op, arg, valid) == [w EXCEPT !.log = Append(@, Event(op, arg, valid))]

\* undefined behaviour: stop the thread, or go on with nothing changed
Undefined(w, ub) == IF ub = "oops" THEN [w EXCEPT !.oops = TRUE] ELSE w

printk(w, msg, arg) == IF w.oops THEN w ELSE Logged(w, msg, arg, TRUE)

\* platform_device_del: takes a registered device off the device registry
platform_device_del(w, h, ub) ==
  IF w.oops THEN w
  ELSE LET st == w.pdevs[h].state
           w1 == Logged(w, "platform_device_del", h, st = "added")
       IN IF st = "added" THEN [w1 EXCEPT !.pdevs[h].state = "deleted"]
          ELSE Undefined(w1, ub)

\* platform_device_put: drops the driver's reference, releasing the device
platform_device_put(w, h, ub) ==
  IF w.oops THEN w
  ELSE LET st == w.pdevs[h].state
           w1 == Logged(w, "platform_device_put", h, st \in {"allocated", "deleted"})
       IN IF st \in {"allocated", "deleted"}
          THEN [w1 EXCEPT !.pdevs[h].state = "released"]
          ELSE Undefined(w1, ub)

\* gpiod_add_lookup_table(gpiod_tables[i]): cannot fail
gpiod_add_lookup_table(w, i) ==
  IF w.oops THEN w
  ELSE [Logged(w, "gpiod_add_lookup_table", i, i \notin w.gpio_lookup_list)
          EXCEPT !.gpio_lookup_list = @ \cup {i}]

\* gpiod_remove_lookup_table(gpiod_tables[i]): list_del of the table's
\* list entry, undefined for a table that is not on the list
gpiod_remove_lookup_table(w, i, ub) ==
  IF w.oops THEN w
  ELSE LET on == i \in w.gpio_lookup_list
           w1 == Logged(w, "gpiod_remove_lookup_table", i, on)
       IN IF on THEN [w1 EXCEPT !.gpio_lookup_list = @ \ {i}]
          ELSE Undefined(w1, ub)

\* kfree(p): no-op for NULL, undefined for memory already freed
kfree(w, p, ub) ==
  IF w.oops THEN w
  ELSE IF p = NULL THEN Logged(w, "kfree", NULL, TRUE)
  ELSE LET live == w.kheap[p].state = "live"
           w1 == Logged(w, "kfree", p, live)
       IN IF live THEN [w1 EXCEPT !.kheap[p].state = "freed"]
          ELSE Undefined(w1, ub)

\* ---- i2c_gpio_custom_cleanup ----
\* loop conditions of the two for loops
\* mutant: the device loop stops one entry early
DevLoopCond_short(w, i) == i < w.nr_devices - 1
DevLoopCond(w, i) == i < w.nr_devices
TabLoopCond(w, i) == i < w.nr_devices

RECURSIVE CleanupDevices(_, _, _)
CleanupDevices(w, i, ub) ==
  IF w.oops \/ ~DevLoopCond(w, i) THEN w
  ELSE CleanupDevices(
         IF w.devices[i] # NULL
         THEN platform_device_put(
                platform_device_del(w, w.devices[i], ub), w.devices[i], ub)
         ELSE w,
         i + 1, ub)

RECURSIVE CleanupTables(_, _, _)
CleanupTables(w, i, ub) ==
  IF w.oops \/ ~TabLoopCond(w, i) THEN w
  ELSE CleanupTables(
         kfree(gpiod_remove_lookup_table(w, i, ub), w.gpiod_tables[i].dev_id, ub),
         i + 1, ub)

i2c_gpio_custom_cleanup(w, ub) == CleanupTables(CleanupDevices(w, 0, ub), 0, ub)

\* ---- i2c_gpio_custom_add_one ----
\* what the kernel may refuse during one call, and how undefined
\* behaviour turns out
Failures == {"none", "kmalloc", "platform_device_alloc",
             "platform_device_add_data", "platform_device_add"}
UbOutcomes == {"oops", "silent"}

Ret(w, r) == [w |-> w, ret |-> r]

\* mutant: the test for an unconfigured slot is missing
NoParams_never(id) == FALSE
\* if (!bus_nump[id])
NoParams(id) == bus_nump[id] = 0
\* mutant: <= instead of <
TooFew_le(id) == bus_nump[id] <= BUS_PARAM_REQUIRED
\* if (bus_nump[id] < BUS_PARAM_REQUIRED)
TooFew(id) == bus_nump[id] < BUS_PARAM_REQUIRED

\* the parameter block built from params
MakePdata(p) ==
  [udelay |-> p[BUS_PARAM_UDELAY],
   timeout |-> p[BUS_PARAM_TIMEOUT],
   sda_is_open_drain |-> p[BUS_PARAM_SDA_OD] # 0,
   scl_is_open_drain |-> p[BUS_PARAM_SCL_OD] # 0,
   scl_is_output_only |-> p[BUS_PARAM_SCL_OO] # 0]

\* the error labels; dev_id is the local pointer, id the slot
err_free(w, dev_id, ub) == kfree(w, dev_id, ub)
\* mutant: the table removed is that of the last recorded device
err_remove_last_recorded(w, id, dev_id, ub) ==
  err_free(
    gpiod_remove_lookup_table(
      w, IF w.nr_devices > 0 THEN w.devices[w.nr_devices - 1] - 1 ELSE id, ub),
    dev_id, ub)
\* mutant: the identity string is freed before the table is removed
err_remove_free_first(w, id, dev_id, ub) ==
  gpiod_remove_lookup_table(err_free(w, dev_id, ub), id, ub)
err_remove(w, id, dev_id, ub) ==
  err_free(gpiod_remove_lookup_table(w, id, ub), dev_id, ub)
\* mutant: err_put returns without falling through to err_remove
err_put_only(w, pdev, id, dev_id, ub) == platform_device_put(w, pdev, ub)
err_put(w, pdev, id, dev_id, ub) ==
  err_remove(platform_device_put(w, pdev, ub), id, dev_id, ub)

\* mutant: the counter is not incremented
RecordDevice_noinc(w, pdev) == [w EXCEPT !.devices[w.nr_devices] = pdev]
\* devices[nr_devices++] = pdev
RecordDevice(w, pdev) ==
  [w EXCEPT !.devices[w.nr_devices] = pdev, !.nr_devices = @ + 1]

\* platform_device_alloc .. return 0, and the labels err_put, err_remove
RegisterDevice(w, id, p, dev_id, f, ub) ==
  IF w.oops THEN Ret(w, "0")
  ELSE
  LET pdev == id + 1
      wa == Logged(w, "platform_device_alloc", p[BUS_PARAM_ID], f # "platform_device_alloc")
  IN IF f = "platform_device_alloc"
     THEN Ret(err_remove(wa, id, dev_id, ub), "-ENOMEM")
     ELSE
     LET w1 == [wa EXCEPT !.pdevs[pdev] =
                  [state |-> "allocated", id |-> p[BUS_PARAM_ID],
                   has_pdata |-> FALSE, pdata |-> ZeroPdata]]
         w2 == Logged(w1, "platform_device_add_data", pdev, f # "platform_device_add_data")
     IN IF f = "platform_device_add_data"
        THEN Ret(err_put(w2, pdev, id, dev_id, ub), "-ENOMEM")
        ELSE
        LET w3 == [w2 EXCEPT !.pdevs[pdev].has_pdata = TRUE,
                             !.pdevs[pdev].pdata = MakePdata(p)]
            w4 == Logged(w3, "platform_device_add", pdev, f # "platform_device_add")
        IN IF f = "platform_device_add"
           THEN Ret(err_put(w4, pdev, id, dev_id, ub), "-EEXIST")
           ELSE Ret(RecordDevice([w4 EXCEPT !.pdevs[pdev].state = "added"], pdev), "0")

\* kmalloc .. gpiod_add_lookup_table, and the label err_free.
\* kmalloc's result is not tested: after a failed kmalloc snprintf writes
\* through NULL, which is undefined.
InstallTable(w, id, p, f, ub) ==
  LET dev_id == IF f = "kmalloc" THEN NULL ELSE id + 1
      w1 == Logged(w, "kmalloc", dev_id, dev_id # NULL)
      w2 == IF dev_id = NULL
            THEN Undefined(Logged(w1, "snprintf", NULL, FALSE), ub)
            ELSE [Logged(w1, "snprintf", dev_id, TRUE) EXCEPT
                    !.kheap[dev_id] = [state |-> "live",
                                       text |-> snprintf_text(p[BUS_PARAM_ID])]]
  IN IF w2.oops THEN Ret(w2, "0")
     ELSE IF snprintf_len(p[BUS_PARAM_ID]) >= BUS_NAME_MAX + 1
     THEN Ret(err_free(printk(w2, "bus id too large", id), dev_id, ub), "-EINVAL")
     ELSE RegisterDevice(
            gpiod_add_lookup_table([w2 EXCEPT !.gpiod_tables[id].dev_id = dev_id], id),
            id, p, dev_id, f, ub)

\* gpiod_table->table[k] = {chip->label, gpio - chip->base}
SetLine(w, id, k, chip, gpio) ==
  [w EXCEPT !.gpiod_tables[id].table[k].chip_label = chip.label,
            !.gpiod_tables[id].table[k].chip_hwnum = gpio - chip.base]

\* mutant: the result of gpio_to_chip is not tested
NoSuchChip_never(chip) == FALSE
\* if (!chip_sda), if (!chip_scl)
NoSuchChip(chip) == chip = NoChip

ResolveLines(w, id, p, f, ub) ==
  LET sda == p[BUS_PARAM_SDA]
      scl == p[BUS_PARAM_SCL]
      chip_sda == gpio_to_chip(sda)
      chip_scl == gpio_to_chip(scl)
      w1 == Logged(w, "gpio_to_chip", sda, chip_sda # NoChip)
  IN IF NoSuchChip(chip_sda)
     THEN Ret(printk(w1, "nonexistent GPIO for SDA", sda), "-EINVAL")
     ELSE LET w2 == Logged(SetLine(w1, id, 0, chip_sda, sda),
                           "gpio_to_chip", scl, chip_scl # NoChip)
          IN IF NoSuchChip(chip_scl)
             THEN Ret(printk(w2, "nonexistent GPIO for SCL", scl), "-EINVAL")
             ELSE InstallTable(SetLine(w2, id, 1, chip_scl, scl), id, p, f, ub)

\* mutant: the field count is tested after the lines were resolved and
\* the table and device set up
add_one_late_check(w, id, p, f, ub) ==
  IF NoParams(id) THEN Ret(w, "0")
  ELSE LET r == ResolveLines(w, id, p, f, ub)
       IN IF TooFew(id)
          THEN Ret(printk(r.w, "not enough parameters for bus", id), "-EINVAL")
          ELSE r
i2c_gpio_custom_add_one(w, id, p, f, ub) ==
  IF NoParams(id) THEN Ret(w, "0")
  ELSE IF TooFew(id)
  THEN Ret(printk(w, "not enough parameters for bus", id), "-EINVAL")
  ELSE ResolveLines(w, id, p, f, ub)

\* ---- i2c_gpio_custom_probe, in the steps of its body ----
\* mutant: the test for an empty pass is missing
NoDevices_never(w) == FALSE
\* if (!nr_devices)
NoDevices(w) == w.nr_devices = 0

Init ==
  /\ \E cfg \in [Slots -> Tuples] :
       /\ bus_nump = [i \in Slots |-> cfg[i].nump]
       /\ params = [i \in Slots |-> cfg[i].params]
  /\ devices = [i \in Slots |-> NULL]
  /\ nr_devices = 0
  /\ gpiod_tables = [i \in Slots |-> GPIOD_TABLE_TEMPLATE]
  /\ gpio_lookup_list = {}
  /\ pdevs = [h \in Handles |->
                [state |-> "none", id |-> 0, has_pdata |-> FALSE, pdata |-> ZeroPdata]]
  /\ kheap = [h \in Handles |-> [state |-> "none", text |-> <<>>]]
  /\ log = <<>>
  /\ pc = "probe"
  /\ cur = 0
  /\ err = "0"
  /\ cleanups = 0

\* mutant: probe ignores the return value and goes on to the next slot
GotoErr_never(ret) == FALSE
\* if (err) goto err;
GotoErr(ret) == ret # "0"

\* err = i2c_gpio_custom_add_one(cur, bus<cur>); if (err) goto err;
AddOne ==
  /\ pc = "probe"
  /\ cur < BUS_COUNT_MAX
  /\ \E f \in Failures, ub \in UbOutcomes :
       LET r == i2c_gpio_custom_add_one(World, cur, params[cur], f, ub)
       IN /\ SetWorld(r.w)
          /\ pc' = IF r.w.oops THEN "oops" ELSE IF GotoErr(r.ret) THEN "err" ELSE "probe"
          /\ err' = IF r.w.oops THEN err ELSE r.ret
  /\ cur' = cur + 1
  /\ UNCHANGED <<bus_nump, params, cleanups>>

\* if (!nr_devices) { ...; err = -ENODEV; goto err; }  return 0;
ProbeCheck ==
  /\ pc = "probe"
  /\ cur = BUS_COUNT_MAX
  /\ IF NoDevices(World)
     THEN /\ SetWorld(printk(World, "no bus parameter(s) specified", 0))
          /\ err' = "-ENODEV"
          /\ pc' = "err"
     ELSE /\ SetWorld(World)
          /\ err' = "0"
          /\ pc' = "loaded"
  /\ UNCHANGED <<bus_nump, params, cur, cleanups>>

\* one call of i2c_gpio_custom_cleanup, then control goes to `to`
CallCleanup(to) ==
  /\ \E ub \in UbOutcomes :
       LET w == i2c_gpio_custom_cleanup(World, ub)
       IN /\ SetWorld(w)
          /\ pc' = IF w.oops THEN "oops" ELSE to
  /\ cleanups' = cleanups + 1
  /\ UNCHANGED <<bus_nump, params, cur, err>>

\* err: i2c_gpio_custom_cleanup(); return err;
ProbeErr ==
  /\ pc = "err"
  /\ CallCleanup("failed")

\* i2c_gpio_custom_exit, called for a module whose init returned 0
Exit ==
  /\ pc = "loaded"
  /\ CallCleanup("unloaded")

Next == AddOne \/ ProbeCheck \/ ProbeErr \/ Exit

Spec == Init /\ [][Next]_vars

\* ---- the pass over ids from the whole unsigned range ----
\* unsigned ids as <<high half, low half>>: 1, 10, 2^31 - 1, 2^31, 2^32 - 1
UintIds ==
  {<<0, 1>>, <<0, 10>>, <<32767, 65535>>, <<32768, 0>>, <<65535, 65535>>}

TuplesIdentity ==
  {Load(0, Full(0, GoodPair))}
  \cup {Load(BUS_PARAM_REQUIRED, Full(IntOfUint(u), GoodPair)) : u \in UintIds}

InitIdentity ==
  /\ \E cfg \in [Slots -> TuplesIdentity] :
       /\ bus_nump = [i \in Slots |-> cfg[i].nump]
       /\ params = [i \in Slots |-> cfg[i].params]
  /\ devices = [i \in Slots |-> NULL]
  /\ nr_devices = 0
  /\ gpiod_tables = [i \in Slots |-> GPIOD_TABLE_TEMPLATE]
  /\ gpio_lookup_list = {}
  /\ pdevs = [h \in Handles |->
                [state |-> "none", id |-> 0, has_pdata |-> FALSE, pdata |-> ZeroPdata]]
  /\ kheap = [h \in Handles |-> [state |-> "none", text |-> <<>>]]
  /\ log = <<>>
  /\ pc = "probe"
  /\ cur = 0
  /\ err = "0"
  /\ cleanups = 0

SpecIdentity == InitIdentity /\ [][Next]_vars

\* ---- the teardown routine called again ----
\* i2c_gpio_custom_cleanup invoked once more after a call of it has
\* returned (after the rollback of a failed probe, or after exit)
CleanupAgain ==
  /\ pc \in {"failed", "unloaded"}
  /\ cleanups < MaxCleanup
  /\ CallCleanup(pc)

NextTeardown == Next \/ CleanupAgain

SpecTeardown == Init /\ [][NextTeardown]_vars

\* ---- what the claims speak of ----
\* device instances on the device registry
Registered == {h \in Handles : pdevs[h].state = "added"}
\* device instances that exist (allocated and not yet released)
Existing == {h \in Handles : pdevs[h].state \in {"allocated", "added", "deleted"}}
\* slots whose device is registered and whose table is installed
Provisioned == {i \in Slots : (i + 1) \in Registered /\ i \in gpio_lookup_list}
LogIndex == 1 .. Len(log)
\* a call that removes or releases something (kfree(NULL) releases nothing)
IsRelease(e) ==
  \/ e.op \in {"platform_device_del", "platform_device_put", "gpiod_remove_lookup_table"}
  \/ e.op = "kfree" /\ e.arg # NULL
Releases(l) == {k \in 1 .. Len(l) : IsRelease(l[k])}
\* the pass has returned an error / add_one has just returned an error
PassFailed == pc = "failed"
AddOneFailed == pc = "err" /\ err # "-ENODEV"

\* C1: when the provisioning pass returns an error, no device instance is
\* registered and every device instance of the pass has been released.
C1_AllOrNothingPass ==
  PassFailed => Registered = {} /\ Existing = {}
C1_Witness ==
  PassFailed /\ nr_devices >= 1 /\ pdevs[devices[0]].state = "released"

\* C2: when the provisioning pass returns an error, no binding table
\* installed during the pass is still on the pin registry's lookup list.
C2_NoTableAfterFailedPass ==
  PassFailed => gpio_lookup_list = {}

\* C3: when provision (add_one) returns an error, neither a device instance
\* nor a binding table of that slot remains installed.
C3_AllOrNothingBus ==
  AddOneFailed =>
    /\ (cur - 1) \notin gpio_lookup_list
    /\ cur \notin Existing
C3_Witness ==
  /\ AddOneFailed
  /\ err = "-EEXIST"
  /\ \E k \in LogIndex : log[k].op = "gpiod_add_lookup_table" /\ log[k].arg = cur - 1

\* C4: outside an in-flight provision step the number of provisioned slots
\* equals the number of registered device instances and the number of
\* installed binding tables.
C4_CountsAgree ==
  pc # "oops" =>
    /\ Cardinality(Provisioned) = Cardinality(Registered)
    /\ Cardinality(Provisioned) = Cardinality(gpio_lookup_list)

NoFurtherRelease == Releases(log') = Releases(log)
\* C5: once teardown has returned, a further teardown call is a no-op: it
\* removes or releases nothing.
C5_SecondTeardownNoop ==
  [][(pc \in {"failed", "unloaded"}) => NoFurtherRelease]_vars

\* C6: after a successful pass, one teardown leaves no device registered, no
\* binding table installed and no identity string allocated.
C6_TeardownReversesAll ==
  pc = "unloaded" =>
    /\ Registered = {}
    /\ gpio_lookup_list = {}
    /\ \A h \in Handles : kheap[h].state # "live"

\* C7: teardown never removes a device or uninstalls a binding table of a
\* slot that was not provisioned: every removal acts on something installed.
C7_TeardownSkipsUnprovisioned ==
  \A k \in LogIndex :
    log[k].op \in {"platform_device_del", "gpiod_remove_lookup_table"} => log[k].valid

\* C8: provision of a slot with 0 supplied fields returns 0 (Skipped) and
\* changes nothing: no resolver call, no table, no device, same count.
C8_SkipSemantics ==
  [][pc = "probe" /\ cur < BUS_COUNT_MAX /\ bus_nump[cur] = 0 =>
       /\ pc' = "probe"
       /\ err' = "0"
       /\ UNCHANGED <<devices, nr_devices, gpiod_tables, gpio_lookup_list,
                      pdevs, kheap, log>>]_vars
C8_Witness ==
  /\ pc = "probe"
  /\ cur >= 2
  /\ bus_nump[cur - 1] = 0
  /\ nr_devices = 1
  /\ Cardinality(gpio_lookup_list) = 1

\* the calls whose failure makes provision of a well-formed tuple fail
CollaboratorCalls ==
  {"gpio_to_chip", "platform_device_alloc", "platform_device_add_data",
   "platform_device_add"}

\* C9: provision of a slot with 1 or 2 supplied fields returns -EINVAL with
\* the "not enough parameters" diagnostic; provision of a slot with exactly
\* 3 supplied fields fails only if line resolution or a device call failed,
\* and otherwise registers the device with udelay = 0, timeout = 0 and the
\* three flags false.
C9_MinimumFields ==
  pc \in {"probe", "err"} /\ cur >= 1 =>
    /\ bus_nump[cur - 1] \in 1 .. 2 =>
         /\ pc = "err"
         /\ err = "-EINVAL"
         /\ log # <<>>
         /\ log[Len(log)] = Event("not enough parameters for bus", cur - 1, TRUE)
    /\ bus_nump[cur - 1] = 3 /\ pc = "err" =>
         \E k \in LogIndex : ~log[k].valid /\ log[k].op \in CollaboratorCalls
    /\ bus_nump[cur - 1] = 3 /\ pc = "probe" =>
         /\ nr_devices >= 1
         /\ devices[nr_devices - 1] = cur
         /\ cur \in Registered
         /\ (cur - 1) \in gpio_lookup_list
         /\ pdevs[cur].has_pdata
         /\ pdevs[cur].pdata = ZeroPdata
C9_Witness ==
  /\ pc = "err"
  /\ cur >= 2
  /\ bus_nump[cur - 1] = 2
  /\ bus_nump[cur - 2] = 3
  /\ (cur - 1) \in Registered
  /\ pdevs[cur - 1].pdata = ZeroPdata

\* C10: when all four slots have 0 supplied fields the pass ends with the
\* error -ENODEV, no device registered and no binding table installed.
AllSkipped == \A i \in Slots : bus_nump[i] = 0
C10_NoDevicesConfigured ==
  AllSkipped =>
    /\ pc \in {"probe", "err", "failed"}
    /\ pc = "probe" => err = "0"
    /\ pc \in {"err", "failed"} => err = "-ENODEV"
    /\ Registered = {}
    /\ gpio_lookup_list = {}
C10_Witness ==
  AllSkipped /\ PassFailed /\ err = "-ENODEV"

\* the calls by which provision installs something or asks the resolver
ProvisionCalls ==
  {"gpio_to_chip", "kmalloc", "snprintf", "gpiod_add_lookup_table",
   "platform_device_alloc", "platform_device_add_data", "platform_device_add"}
\* the calls of l2 beyond l1 (l1 a prefix of l2)
NewCalls(l1, l2) == {l2[k].op : k \in (Len(l1) + 1) .. Len(l2)}
\* one step of the pass: slots are taken in the order 0, 1, 2, 3 and a table
\* is installed only for the slot at hand; a non-zero return value ends
\* the visits; from then on nothing is provisioned, teardown runs and the
\* return value is kept
PassStep ==
  /\ pc = "probe" /\ cur < BUS_COUNT_MAX =>
       /\ cur' = cur + 1
       /\ err = "0"
       /\ err' # "0" => pc' = "err"
       /\ \A k \in (Len(log) + 1) .. Len(log') :
            log'[k].op = "gpiod_add_lookup_table" => log'[k].arg = cur
  /\ pc = "err" =>
       /\ pc' \in {"failed", "oops"}
       /\ err' = err
       /\ cur' = cur
       /\ cleanups' = cleanups + 1
       /\ NewCalls(log, log') \cap ProvisionCalls = {}

\* C11: the pass visits the slots in the order 0..3; at the first slot whose
\* provision returns an error no later slot is provisioned, teardown runs
\* and the pass returns that slot's error unchanged.
C11_FirstErrorStops == [][PassStep]_vars
C11_Witness ==
  /\ PassFailed
  /\ err = "-EINVAL"
  /\ cleanups = 1
  /\ cur < BUS_COUNT_MAX
  /\ bus_nump[cur] >= BUS_PARAM_REQUIRED
  /\ pdevs[cur + 1].state = "none"
  /\ gpiod_tables[cur] = GPIOD_TABLE_TEMPLATE

\* slot i has the required fields and the resolver knows no chip for its
\* data line / knows one for its data line and none for its clock line
BadData(i) ==
  /\ bus_nump[i] >= BUS_PARAM_REQUIRED
  /\ gpio_to_chip(params[i][BUS_PARAM_SDA]) = NoChip
BadClock(i) ==
  /\ bus_nump[i] >= BUS_PARAM_REQUIRED
  /\ gpio_to_chip(params[i][BUS_PARAM_SDA]) # NoChip
  /\ gpio_to_chip(params[i][BUS_PARAM_SCL]) = NoChip
\* nothing was installed or created for slot i
Untouched(i) ==
  /\ i \notin gpio_lookup_list
  /\ pdevs[i + 1].state = "none"
  /\ kheap[i + 1].state = "none"
  /\ gpiod_tables[i].dev_id = NULL
  /\ \A k \in LogIndex : log[k].op = "gpiod_add_lookup_table" => log[k].arg # i

\* C12: when the resolver fails for the data line, or for the clock line
\* after the data line resolved, provision returns -EINVAL with the
\* diagnostic naming that role and that line number, installs no table and
\* creates no device; the pass then returns -EINVAL with no device left
\* registered.
C12_UnresolvableLine ==
  pc \in {"probe", "err", "failed"} /\ cur >= 1
    /\ (BadData(cur - 1) \/ BadClock(cur - 1)) =>
       /\ pc \in {"err", "failed"}
       /\ err = "-EINVAL"
       /\ Untouched(cur - 1)
       /\ pc = "err" /\ BadData(cur - 1) =>
            log[Len(log)] =
              Event("nonexistent GPIO for SDA", params[cur - 1][BUS_PARAM_SDA], TRUE)
       /\ pc = "err" /\ BadClock(cur - 1) =>
            log[Len(log)] =
              Event("nonexistent GPIO for SCL", params[cur - 1][BUS_PARAM_SCL], TRUE)
       /\ pc = "failed" => Registered = {} /\ Existing = {}
C12_Witness ==
  /\ PassFailed
  /\ cur = 2
  /\ BadData(1)
  /\ params[1][BUS_PARAM_SDA] = 100000
  /\ pdevs[1].state = "released"
  /\ \E k \in LogIndex : log[k] = Event("nonexistent GPIO for SDA", 100000, TRUE)

\* the positions of the log where kmalloc returned NULL
FailedKmallocs == {k \in LogIndex : log[k].op = "kmalloc" /\ ~log[k].valid}

\* C13: when the allocation of an identity string fails, provision returns
\* -ENOMEM (so the pass ends with that error), nothing is written through
\* the NULL buffer, and after the failed allocation no binding table is
\* installed and no device is created.
C13_AllocationFailed ==
  \A k \in FailedKmallocs :
    /\ pc \in {"err", "failed"}
    /\ err = "-ENOMEM"
    /\ \A j \in LogIndex :
         j > k => log[j].op \notin {"snprintf", "gpiod_add_lookup_table",
                                    "platform_device_alloc"}

\* the slots before `cur` that have the required fields
Configured == {i \in Slots : i < cur /\ bus_nump[i] >= BUS_PARAM_REQUIRED}

\* C14: while every configured slot so far provisioned successfully, and
\* when the pass has succeeded, the number of provisioned buses equals the
\* number of visited slots with 3 or more fields, exactly these slots have
\* a registered device and an installed binding table, recorded in slot
\* order; a successful pass has 1 to 4 of them, and they stay until
\* teardown; the pass ends with -ENODEV only when no slot is configured.
C14_SuccessfulPass ==
  /\ pc \in {"probe", "loaded"} =>
       /\ err = "0"
       /\ nr_devices = Cardinality(Configured)
       /\ Registered = {i + 1 : i \in Configured}
       /\ gpio_lookup_list = Configured
       /\ {devices[k] : k \in 0 .. (nr_devices - 1)} = Registered
       /\ \A k \in 0 .. (nr_devices - 2) : devices[k] < devices[k + 1]
  /\ pc = "loaded" =>
       /\ cur = BUS_COUNT_MAX
       /\ nr_devices \in 1 .. BUS_COUNT_MAX
       /\ cleanups = 0
  /\ pc \in {"err", "failed"} /\ err = "-ENODEV" => AllSkipped
C14_Witness ==
  /\ pc = "loaded"
  /\ nr_devices = 2
  /\ bus_nump[0] = 0
  /\ bus_nump[1] = BUS_PARAM_COUNT
  /\ bus_nump[3] = BUS_PARAM_REQUIRED
  /\ Provisioned = {1, 3}

\* the identity string of slot i has been written
Written(i) == kheap[i + 1].state # "none"
\* slot i is configured with the unsigned id u
HasId(i, u) ==
  bus_nump[i] >= BUS_PARAM_REQUIRED /\ params[i][BUS_PARAM_ID] = IntOfUint(u)

\* C15: two slots configured with different 32-bit unsigned ids get
\* different identity strings "i2c-gpio.<id>".
C15_IdentityUnique ==
  \A i, j \in Slots : \A u1, u2 \in UintIds :
    i < j /\ u1 # u2 /\ HasId(i, u1) /\ HasId(j, u2) /\ Written(i) /\ Written(j)
      => kheap[i + 1].text # kheap[j + 1].text
C15_Witness ==
  /\ HasId(0, <<0, 1>>)
  /\ HasId(1, <<65535, 65535>>)
  /\ HasId(2, <<32768, 0>>)
  /\ Written(0) /\ Written(1) /\ Written(2)
  /\ kheap[2].text = DevIdPrefix \o <<"-", "1">>
  /\ Len(kheap[3].text) = 20

\* provision of slot `cur` did nothing but print the diagnostic `msg`
OnlyPrinted(msg) ==
  /\ log' = Append(log, Event(msg, cur, TRUE))
  /\ UNCHANGED <<devices, nr_devices, gpiod_tables, gpio_lookup_list, pdevs, kheap>>

\* C16: provision of a slot with 1 or 2 supplied fields returns -EINVAL
\* having made no resolver call and no allocation: the slot's static table
\* entry, the lookup list and the device registry are unchanged, and the
\* only call is the diagnostic.
C16_ValidationFirst ==
  [][pc = "probe" /\ cur < BUS_COUNT_MAX /\ bus_nump[cur] \in 1 .. 2 =>
       /\ pc' = "err"
       /\ err' = "-EINVAL"
       /\ OnlyPrinted("not enough parameters for bus")]_vars
C16_Witness ==
  /\ AddOneFailed
  /\ bus_nump[cur - 1] = 1
  /\ gpiod_tables[cur - 1] = GPIOD_TABLE_TEMPLATE
  /\ log[Len(log)].op = "not enough parameters for bus"
  /\ \A k \in LogIndex : log[k].op = "gpio_to_chip" => log[k].arg \in {5, 6}
  /\ nr_devices = cur - 1

\* provision of slot i got as far as installing its table
TableWasInstalled(i) ==
  \E k \in LogIndex : log[k] = Event("gpiod_add_lookup_table", i, TRUE)
\* how often the call op was made with argument arg
Calls(op, arg) == Cardinality({k \in LogIndex : log[k].op = op /\ log[k].arg = arg})

\* C17: when provision fails after its table was installed, the log ends
\* with the failed call, then the release of the device (if one was
\* allocated), then the removal of the table, then the release of the
\* identity string, each made once.
C17_RollbackLifo ==
  AddOneFailed /\ TableWasInstalled(cur - 1) =>
    LET n == Len(log)
        dev_id == gpiod_tables[cur - 1].dev_id
    IN /\ n >= 3
       /\ log[n] = Event("kfree", dev_id, TRUE)
       /\ log[n - 1] = Event("gpiod_remove_lookup_table", cur - 1, TRUE)
       /\ IF pdevs[cur].state = "none"
          THEN /\ log[n - 2].op = "platform_device_alloc"
               /\ ~log[n - 2].valid
          ELSE /\ log[n - 2] = Event("platform_device_put", cur, TRUE)
               /\ log[n - 3].op \in {"platform_device_add_data", "platform_device_add"}
               /\ log[n - 3].arg = cur
               /\ ~log[n - 3].valid
               /\ Calls("platform_device_put", cur) = 1
       /\ Calls("gpiod_remove_lookup_table", cur - 1) = 1
       /\ Calls("gpiod_add_lookup_table", cur - 1) = 1
       /\ dev_id # NULL => Calls("kfree", dev_id) = 1 /\ kheap[dev_id].state = "freed"
C17_Witness ==
  /\ AddOneFailed
  /\ cur = 2
  /\ TableWasInstalled(1)
  /\ pdevs[2].state = "released"
  /\ kheap[2].state = "freed"
  /\ log[Len(log) - 3] = Event("platform_device_add", 2, FALSE)

\* the slots recorded as provisioned, in devices[0 .. nr_devices - 1]
Recorded == {i \in Slots : \E k \in 0 .. (nr_devices - 1) : devices[k] = i + 1}
\* teardown has run and returned
TornDown == pc \in {"failed", "unloaded"}

\* the position of the call e in the log, 0 when it was not made
Pos(e) ==
  IF \E k \in LogIndex : log[k] = e THEN CHOOSE k \in LogIndex : log[k] = e ELSE 0
DelPos(i) == Pos(Event("platform_device_del", i + 1, TRUE))
PutPos(i) == Pos(Event("platform_device_put", i + 1, TRUE))
RemovePos(i) == Pos(Event("gpiod_remove_lookup_table", i, TRUE))

\* C18: teardown takes the provisioned slots in the order they were
\* provisioned; for each of them the device is taken off the registry, then
\* released, then the slot's table is uninstalled, then its identity string
\* is released.
C18_TeardownOrder ==
  TornDown =>
    /\ \A i \in Recorded :
         /\ 0 < DelPos(i)
         /\ DelPos(i) < PutPos(i)
         /\ PutPos(i) < RemovePos(i)
         /\ \E d \in LogIndex :
              /\ RemovePos(i) < d
              /\ log[d] = Event("kfree", gpiod_tables[i].dev_id, TRUE)
    /\ \A i, j \in Recorded : i < j => DelPos(i) < DelPos(j)

\* C19: after one pass and, if it succeeded, one teardown, every identity
\* string that was allocated has been released exactly once: none is
\* released twice and none is still allocated.
C19_IdentityBalance ==
  TornDown =>
    /\ \A h \in Handles :
         kheap[h].state # "none" =>
           /\ kheap[h].state = "freed"
           /\ Calls("kfree", h) = 1
    /\ \A k \in LogIndex : log[k].op = "kfree" => log[k].valid

\* everything kept for the slots visited before `cur` is as it was
EarlierSlotsKept ==
  /\ nr_devices' = nr_devices
  /\ devices' = devices
  /\ Registered' = Registered
  /\ \A i \in Slots :
       i < cur =>
         /\ (i \in gpio_lookup_list') = (i \in gpio_lookup_list)
         /\ gpiod_tables'[i] = gpiod_tables[i]
         /\ pdevs'[i + 1] = pdevs[i + 1]
         /\ kheap'[i + 1] = kheap[i + 1]

\* C20: a provision call that returns Skipped or an error changes nothing
\* of the slots provisioned before it: their devices stay registered, their
\* tables installed, and the device counter and list are unchanged.
C20_FailedProvisionFrame ==
  [][pc = "probe" /\ cur < BUS_COUNT_MAX /\ (pc' = "err" \/ bus_nump[cur] = 0)
       => EarlierSlotsKept]_vars
C20_Witness ==
  /\ AddOneFailed
  /\ err = "-ENOMEM"
  /\ cur = 3
  /\ TableWasInstalled(2)
  /\ Provisioned = {0, 1}
  /\ nr_devices = 2

=============================================================================
